---- MODULE Spec2Model ----
(***************************************************************************)
(* nexus-core: request-scoped context (RequestContext over Node's          *)
(* AsyncLocalStorage) with cooperative cancellation.                       *)
(*                                                                         *)
(* A RequestContext object ("handle") has three fields: store (a Map),     *)
(* cancelCallbacks (a Set, iterated in insertion order) and cancelled.     *)
(* run() builds one and installs only its store in the AsyncLocalStorage;  *)
(* current() builds a NEW RequestContext around the ambient store, with    *)
(* its own cancelCallbacks and its own cancelled.  The object built by     *)
(* run() is referenced by nothing after run() returns, so the model keeps  *)
(* only its store.                                                         *)
(*                                                                         *)
(* JavaScript runs one continuation at a time: an action is one            *)
(* synchronous stretch of a continuation.  cancel() is the exception that  *)
(* is split, one step per callback it runs, so that what the callbacks do  *)
(* (they may call onCancel and cancel again, return or raise) and the      *)
(* states in between are visible; no other continuation runs in between.   *)
(* Callbacks are not modelled calling run, current or set.                 *)
(*                                                                         *)
(* Beside the program's own objects the model can keep a history of the    *)
(* calls made (which run enclosed a run, when a handle was resolved, when  *)
(* set was last called, what the resolving functions answered).  The       *)
(* operations never read it; a specification that needs it pairs each      *)
(* operation with the note it leaves, the others leave it empty.           *)
(*                                                                         *)
(* The cache (CacheManager over SimpleLRUCache) is a second, independent   *)
(* facility: a Map kept in recency order, put() evicting its first key     *)
(* when the size exceeds the capacity, and getOrSet(), which awaits the    *)
(* factory between its get and its set and leaves a timer behind when a    *)
(* ttl is given.  Time is a counter; a timer fires when the counter has    *)
(* reached its deadline, before the counter moves on.                      *)
(***************************************************************************)
EXTENDS Integers, Sequences, FiniteSets, TLC

\* ------------------------------------------------------------------ bounds
\* The calls of run in one behaviour.
MaxRuns == 2
\* The continuations started (by run or as sub-operations) plus the calls of
\* current in one behaviour.
MaxCtxOps == 4
\* The calls of current, onCancel and cancel in one behaviour.
MaxOps == 5
\* The calls of getAll in one behaviour.
MaxGetAll == 1

Keys == {"x"}
\* The values that set() writes, and the value that initialData gives a key.
Values == {1, 2}
SeedValues == {3}
\* Map.get of an absent key: undefined.
Undef == 0
\* als.getStore() outside any run: undefined.
NoStore == 0
Callbacks == {"c1", "c2"}

\* The calls of getOrSet in one behaviour.
MaxCalls == 2
\* The time runs from 0 to MaxTime.
MaxTime == 1

\* The capacities a CacheManager is built with.
Capacities == 0 .. 2
CacheKeys == {"a", "b", "c"}
\* The values that set() stores, and what a factory produces (a factory may
\* produce undefined).
SetValues == {1}
LruValues == {1, 2}
FactoryResults == {2, Undef}
\* ttl of getOrSet: none given, or a number of time units.
NoTtl == 0
Ttls == {NoTtl, 1}
\* No CacheManager has been constructed.
NotBuilt == -1
NotDone == -1

VARIABLES
  stores,    \* stores[r]: the Map created by the r-th run()
  returned,  \* the runs whose callback has returned
  tasks,     \* continuation chains; tasks[1] is the program outside any run
  handles,   \* the RequestContext objects built by current()
  stack,     \* cancel() calls in progress, innermost last
  regs,      \* every onCancel call, in call order
  calls,     \* every cancel() call, in call order
  invs,      \* every callback invocation, in invocation order
  written,   \* written[r][k]: the last value code of run r wrote under k
  seenTrue,  \* the runs in which some isCancelled() has returned true
  snapshots, \* the objects returned by getAll(), in call order
  runs,      \* history: runs[r], the r-th call of run
  resolvedAt,\* history: resolvedAt[h], how and when handle h was built
  lastSet,   \* history: the latest call of set
  outcomes,  \* history: what current() and the two helpers have answered
  capacity,  \* CacheManager.capacity (NotBuilt before the constructor)
  cache,     \* SimpleLRUCache.cache: the Map's entries in iteration order
  timers,    \* the timers that getOrSet has set and that have not fired
  now,       \* the time
  gos,       \* the calls of getOrSet, in call order
  fired,     \* history: the timers that have fired
  recency,   \* history: the keys present, by their latest get or set
  lastEvict, \* history: the latest eviction by put
  expired,   \* history: the keys deleted by a timer and not written since
  lastPut    \* history: the Map before the latest call, if it was a set

coreVars == <<stores, returned, tasks, handles, stack, regs, calls, invs,
              written, seenTrue>>
histVars == <<runs, resolvedAt, lastSet, outcomes>>

ctxAll == <<coreVars, snapshots, histVars>>
cacheVars == <<capacity, cache, timers, now, gos, fired, recency, lastEvict, expired,
               lastPut>>

vars == <<ctxAll, cacheVars>>

ctxVars == <<stores, returned, tasks, written>>
logVars == <<regs, calls, invs>>

\* ---------------------------------------------------------------- helpers
Last(s) == s[Len(s)]

\* Variant: the constructor ignores initialData.
NewStoreEmpty(initialData) == [k \in Keys |-> Undef]
\* The constructor: an empty Map, then one entry per key of initialData
\* (Undef stands for a key that initialData does not have).
NewStore(initialData) == [k \in Keys |-> initialData[k]]

\* A fresh RequestContext as the field initialisers leave it.  History
\* kept with it: the run its resolving continuation descends from (origin),
\* whether that continuation had been suspended before (susp) and whether
\* the callback of the run had returned (late) when it was resolved.
NewHandle(store, origin, susp, late) ==
  [store |-> store, cancelled |-> FALSE, cancelCallbacks |-> <<>>,
   origin |-> origin, susp |-> susp, late |-> late]

\* Variant: one static slot that holds the store of the latest run.
getStoreLatest(t) == Len(stores)
\* als.getStore() evaluated in continuation t: the store that was current
\* when the continuation was created (NoStore outside any run).
getStore(t) == tasks[t].store

\* Variant: the store is installed for the synchronous part of the
\* callback only and is gone after the first suspension.
CaptureSyncOnly(t) == NoStore
\* als.run(store, callback): the store stays installed for every
\* continuation created while it is current, so an async resource created
\* by continuation t (at an await, a timer, a sub-operation) captures t's
\* store and runs with it when it is resumed.
Capture(t) == getStore(t)

\* Variant: new elements are put in front (last registered, first invoked).
SetAddFront(s, cb) == IF \E i \in DOMAIN s : s[i] = cb THEN s ELSE <<cb>> \o s
\* Set.add: insertion order, an element already present keeps its place.
SetAdd(s, cb) == IF \E i \in DOMAIN s : s[i] = cb THEN s ELSE Append(s, cb)

\* The scope (run) a handle is bound to.
ScopeOf(h) == handles[h].store

\* No call of set yet.
NoSet == [scope |-> NoStore, prev |-> Undef, n |-> 0, snaps |-> 0, cancelled |-> FALSE]

Init ==
  /\ stores = <<>>
  /\ returned = {}
  /\ tasks = << [store |-> NoStore, origin |-> 0, susp |-> FALSE, cb |-> FALSE] >>
  /\ handles = <<>>
  /\ stack = <<>>
  /\ regs = <<>>
  /\ calls = <<>>
  /\ invs = <<>>
  /\ written = <<>>
  /\ seenTrue = {}
  /\ snapshots = <<>>
  /\ runs = <<>>
  /\ resolvedAt = <<>>
  /\ lastSet = NoSet
  /\ outcomes = {}
  /\ capacity = NotBuilt
  /\ cache = <<>>
  /\ timers = {}
  /\ now = 0
  /\ gos = <<>>
  /\ fired = {}
  /\ recency = <<>>
  /\ lastEvict = <<>>
  /\ expired = {}
  /\ lastPut = <<>>

\* Calls made so far.
CtxOps == (Len(tasks) - 1) + Len(handles)
Ops == Len(handles) + Len(regs) + Len(calls)

\* No synchronous call is in progress: the event loop picks a continuation.
Idle == stack = <<>>

\* ------------------------------------------------------- context operations

\* The live continuations: the callback of a run stops at its return.
Live(t) == ~(tasks[t].cb /\ tasks[t].origin \in returned)

\* The continuations that belong to some run.
InRun(t) == tasks[t].origin # 0

\* Variant: the store is installed with enterWith, which also replaces the
\* ambient store of the caller for the rest of its execution.
RunEnterWith(t, initialData) ==
  /\ Idle
  /\ Live(t)
  /\ CtxOps < MaxCtxOps
  /\ Len(stores) < MaxRuns
  /\ stores' = Append(stores, NewStore(initialData))
  /\ written' = Append(written, NewStore(initialData))
  /\ tasks' = Append([tasks EXCEPT ![t].store = Len(stores) + 1],
                     [store |-> Len(stores) + 1, origin |-> Len(stores) + 1,
                      susp |-> FALSE, cb |-> TRUE])
  /\ UNCHANGED <<returned, handles, stack, seenTrue>>
  /\ UNCHANGED logVars

\* RequestContext.run(initialData, callback) called by continuation t:
\* new Map seeded with initialData, als.run(store, callback).  The callback
\* and everything it spawns form a new continuation chain whose ambient
\* store is the new Map; t itself keeps its own ambient store.
Run(t, initialData) ==
  /\ Idle
  /\ Live(t)
  /\ CtxOps < MaxCtxOps
  /\ Len(stores) < MaxRuns
  /\ stores' = Append(stores, NewStore(initialData))
  /\ written' = Append(written, NewStore(initialData))
  /\ tasks' = Append(tasks, [store |-> Len(stores) + 1,
                             origin |-> Len(stores) + 1,
                             susp |-> FALSE, cb |-> TRUE])
  /\ UNCHANGED <<returned, handles, stack, seenTrue>>
  /\ UNCHANGED logVars

\* Continuation t starts a sub-operation (an async function, a timer, one
\* branch of Promise.all): the new async resource captures t's store.
Spawn(t) ==
  /\ Idle
  /\ InRun(t)
  /\ Live(t)
  /\ CtxOps < MaxCtxOps
  /\ tasks' = Append(tasks, [store |-> Capture(t),
                             origin |-> tasks[t].origin,
                             susp |-> FALSE, cb |-> FALSE])
  /\ UNCHANGED <<stores, returned, written, handles, stack, seenTrue>>
  /\ UNCHANGED logVars

\* Continuation t awaits (timer, promise, join) and is resumed: the resumed
\* continuation runs with the store captured at the suspension.
Await(t) ==
  /\ Idle
  /\ InRun(t)
  /\ Live(t)
  /\ tasks' = [tasks EXCEPT ![t] = [@ EXCEPT !.store = Capture(t),
                                             !.susp = TRUE]]
  /\ UNCHANGED <<stores, returned, written, handles, stack, seenTrue>>
  /\ UNCHANGED logVars

\* The callback given to run returns (its async body completes); the
\* continuations it spawned stay pending.
Return(t) ==
  /\ Idle
  /\ tasks[t].cb
  /\ Live(t)
  /\ returned' = returned \cup {tasks[t].origin}
  /\ UNCHANGED <<stores, tasks, written, handles, stack, seenTrue>>
  /\ UNCHANGED logVars

\* RequestContext.current() in continuation t: undefined outside a run,
\* otherwise a new RequestContext whose store is the ambient Map.
Current(t) ==
  /\ Idle
  /\ Live(t)
  /\ getStore(t) # NoStore
  /\ CtxOps < MaxCtxOps
  /\ Ops < MaxOps
  /\ handles' = Append(handles,
                  NewHandle(getStore(t), tasks[t].origin, tasks[t].susp,
                            tasks[t].origin \in returned))
  /\ UNCHANGED <<stores, returned, tasks, written, stack, seenTrue>>
  /\ UNCHANGED logVars

\* get(key): Map.get on the handle's store.
Get(h, k) == stores[handles[h].store][k]

\* Variant: a key keeps the first value it was given.
SetFirstWins(h, k, v) ==
  /\ Idle
  /\ stores' = IF stores[handles[h].store][k] = Undef
                 THEN [stores EXCEPT ![handles[h].store][k] = v] ELSE stores
  /\ written' = [written EXCEPT ![handles[h].origin][k] = v]
  /\ UNCHANGED <<returned, tasks, handles, stack, seenTrue>>
  /\ UNCHANGED logVars

\* set(key, value): Map.set on the handle's store.
Set(h, k, v) ==
  /\ Idle
  /\ stores' = [stores EXCEPT ![handles[h].store][k] = v]
  /\ written' = [written EXCEPT ![handles[h].origin][k] = v]
  /\ UNCHANGED <<returned, tasks, handles, stack, seenTrue>>
  /\ UNCHANGED logVars

\* ------------------------------------------------- cancellation operations

\* Some cancel() has been called through a handle of scope s.
ScopeCancelled(s) == \E i \in DOMAIN calls : ScopeOf(calls[i]) = s

\* Variant: one flag for the whole class.
isCancelledStatic(h) == \E g \in DOMAIN handles : handles[g].cancelled
\* isCancelled(): the handle's own field.
isCancelled(h) == handles[h].cancelled

\* A poll of isCancelled() through handle h, by code of h's scope.
IsCancelled(h) ==
  /\ seenTrue' = IF isCancelled(h) THEN seenTrue \cup {ScopeOf(h)} ELSE seenTrue
  /\ UNCHANGED <<handles, stack>>
  /\ UNCHANGED ctxVars
  /\ UNCHANGED logVars

\* One invocation of cb: by cancel() call number call (0: by onCancel
\* itself, for registration number reg); out is how it ended.
Invocation(h, cb, call, reg, out) ==
  [h |-> h, cb |-> cb, call |-> call, reg |-> reg, out |-> out]

\* Variant: onCancel wraps the immediate invocation in try/catch.
OnCancelCatches(h, cb, threw) ==
  /\ Ops < MaxOps
  /\ regs' = Append(regs, [h |-> h, cb |-> cb,
                           act |-> ~ScopeCancelled(ScopeOf(h)),
                           stored |-> ~handles[h].cancelled])
  /\ IF handles[h].cancelled
       THEN /\ invs' = Append(invs, Invocation(h, cb, 0, Len(regs) + 1,
                                     IF threw THEN "caught" ELSE "ok"))
            /\ UNCHANGED handles
       ELSE /\ ~threw
            /\ handles' = [handles EXCEPT ![h].cancelCallbacks = SetAdd(@, cb)]
            /\ UNCHANGED invs
  /\ UNCHANGED <<stack, calls, seenTrue>>
  /\ UNCHANGED ctxVars

\* onCancel(callback) through handle h.  threw: the callback, if it is
\* invoked here, raises; nothing in onCancel catches it.
OnCancel(h, cb, threw) ==
  /\ Ops < MaxOps
  /\ regs' = Append(regs, [h |-> h, cb |-> cb,
                           act |-> ~ScopeCancelled(ScopeOf(h)),
                           stored |-> ~handles[h].cancelled])
  /\ IF handles[h].cancelled
       THEN /\ invs' = Append(invs, Invocation(h, cb, 0, Len(regs) + 1,
                                     IF threw THEN "escaped" ELSE "ok"))
            /\ UNCHANGED handles
       ELSE /\ ~threw
            /\ handles' = [handles EXCEPT ![h].cancelCallbacks = SetAdd(@, cb)]
            /\ UNCHANGED invs
  /\ UNCHANGED <<stack, calls, seenTrue>>
  /\ UNCHANGED ctxVars

\* Variant: cancel() also empties the store.
CancelClearsStore(h) ==
  /\ Ops < MaxOps
  /\ calls' = Append(calls, h)
  /\ handles' = [handles EXCEPT ![h].cancelled = TRUE, ![h].cancelCallbacks = <<>>]
  /\ stores' = [stores EXCEPT ![handles[h].store] = [k \in Keys |-> Undef]]
  /\ UNCHANGED <<returned, tasks, written, stack, invs, regs, seenTrue>>

\* cancel() through handle h, up to the start of the first callback:
\* early return when already cancelled; otherwise the flag is set and
\* forEach starts.  With no callback the Set is cleared at once.
Cancel(h) ==
  /\ Ops < MaxOps
  /\ calls' = Append(calls, h)
  /\ IF handles[h].cancelled
       THEN UNCHANGED <<handles, stack, invs>>
       ELSE /\ handles' = [handles EXCEPT ![h].cancelled = TRUE]
            /\ IF handles[h].cancelCallbacks = <<>>
                 THEN UNCHANGED <<stack, invs>>
                 ELSE /\ stack' = Append(stack, [h |-> h, i |-> 1,
                                                 call |-> Len(calls) + 1,
                                                 inv |-> Len(invs) + 1])
                      /\ invs' = Append(invs,
                           Invocation(h, handles[h].cancelCallbacks[1],
                                      Len(calls) + 1, 0, "running"))
  /\ UNCHANGED <<regs, seenTrue>>
  /\ UNCHANGED ctxVars

\* The callback that the innermost cancel() is running has ended with
\* outcome out: forEach moves to the next element of the Set, and after the
\* last one the Set is cleared and cancel() returns.
ForEachNext(out) ==
  LET f == Last(stack)
      cbs == handles[f.h].cancelCallbacks
      ended == [invs EXCEPT ![f.inv].out = out]
  IN IF f.i < Len(cbs)
       THEN /\ stack' = [stack EXCEPT ![Len(stack)] =
                           [f EXCEPT !.i = f.i + 1, !.inv = Len(invs) + 1]]
            /\ invs' = Append(ended,
                         Invocation(f.h, cbs[f.i + 1], f.call, 0, "running"))
            /\ UNCHANGED handles
       ELSE /\ stack' = SubSeq(stack, 1, Len(stack) - 1)
            /\ handles' = [handles EXCEPT ![f.h].cancelCallbacks = <<>>]
            /\ invs' = ended

\* The running callback returns normally.
CallbackReturns ==
  /\ stack # <<>>
  /\ ForEachNext("ok")
  /\ UNCHANGED <<regs, calls, seenTrue>>
  /\ UNCHANGED ctxVars

\* The running callback raises: the catch block of forEach's body logs the
\* error and the iteration goes on.
CallbackThrows ==
  /\ stack # <<>>
  /\ ForEachNext("caught")
  /\ UNCHANGED <<regs, calls, seenTrue>>
  /\ UNCHANGED ctxVars

\* --------------------------------------------------------------- getAll

\* getAll(): a new plain object with one property per entry of the Map
\* (Undef: no such property).
getAll(h) == [k \in Keys |-> stores[handles[h].store][k]]

\* A call of getAll() through handle h.  obj is the returned object as it is
\* now; own is what getAll put in it followed by what its holder did to it;
\* edited tells whether the holder has changed it, cancelled whether h was
\* cancelled at the call.
GetAll(h) ==
  /\ Idle
  /\ Len(snapshots) < MaxGetAll
  /\ snapshots' = Append(snapshots,
                    [h |-> h, obj |-> getAll(h), own |-> getAll(h),
                     edited |-> FALSE, cancelled |-> handles[h].cancelled])
  /\ UNCHANGED coreVars

\* Variant: getAll hands out the live entries, so that writing to the
\* returned object writes to the scope.
SnapshotWriteThrough(i, k, v) ==
  /\ Idle
  /\ snapshots' = [snapshots EXCEPT ![i] =
                     [@ EXCEPT !.obj[k] = v, !.own[k] = v, !.edited = TRUE]]
  /\ stores' = [stores EXCEPT ![handles[snapshots[i].h].store][k] = v]
  /\ UNCHANGED <<returned, tasks, handles, stack, regs, calls, invs, written,
                 seenTrue>>

\* The holder of the i-th returned object assigns to a property of it, or
\* deletes one (v = Undef): only that object changes.  Readonly is a
\* compile-time type.
SnapshotWrite(i, k, v) ==
  /\ Idle
  /\ snapshots' = [snapshots EXCEPT ![i] =
                     [@ EXCEPT !.obj[k] = v, !.own[k] = v, !.edited = TRUE]]
  /\ UNCHANGED coreVars

\* ------------------------------------------------- the resolving functions

\* What the three functions answer in continuation t, as a kind of value.
\* current(): undefined when als.getStore() gives nothing, a new
\* RequestContext otherwise.
current(t) == IF getStore(t) = NoStore THEN "undefined" ELSE "handle"
\* Variant: the helper returns what current() returned.
tryGetCurrentContextRaw(t) == current(t)
\* tryGetCurrentContext(): current() ?? null.
tryGetCurrentContext(t) == IF current(t) = "undefined" THEN "null" ELSE current(t)
\* getCurrentContext(): raises when current() gave nothing.
getCurrentContext(t) == IF current(t) = "undefined" THEN "throws" ELSE current(t)

Answer(t, fn) ==
  CASE fn = "current" -> current(t)
    [] fn = "tryGetCurrentContext" -> tryGetCurrentContext(t)
    [] fn = "getCurrentContext" -> getCurrentContext(t)

\* ------------------------------------------------------------- the history

\* Nothing is noted.
NoNote == UNCHANGED histVars

\* run called by continuation t.
NoteRun(t, initialData) ==
  /\ runs' = Append(runs, [outer |-> tasks[t].origin, initialData |-> initialData,
                           setKeys |-> {}, cbValue |-> <<>>, result |-> <<>>])
  /\ UNCHANGED <<resolvedAt, lastSet, outcomes>>

\* A handle built by fn.
NoteHandle(fn) ==
  /\ resolvedAt' = Append(resolvedAt, [fn |-> fn, returned |-> returned])
  /\ UNCHANGED <<runs, lastSet>>

\* set(k, .) through handle h: the scope, the value the key had, and how
\* many handles and getAll objects there were.
NoteSet(h, k) ==
  /\ lastSet' = [scope |-> handles[h].store, prev |-> Get(h, k), n |-> Len(handles),
                 snaps |-> Len(snapshots), cancelled |-> handles[h].cancelled]
  /\ runs' = [runs EXCEPT ![handles[h].store].setKeys = @ \cup {k}]
  /\ UNCHANGED <<resolvedAt, outcomes>>

\* Variant: run calls als.run but drops what it returns.
RunReturnsNothing(value) == Undef
\* What run returns: what als.run returns, which is what the callback
\* returned.
RunReturns(value) == value

\* The callback of run t returns value (for an async callback: its body
\* completes with it), and run hands it to its caller.
ReturnValue(t, value) ==
  /\ Return(t)
  /\ runs' = [runs EXCEPT ![tasks[t].origin] =
                [@ EXCEPT !.cbValue = <<value>>, !.result = <<RunReturns(value)>>]]
  /\ UNCHANGED <<resolvedAt, lastSet, outcomes>>

\* Continuation t calls current() or one of the helpers: the answer is
\* noted, and inside a run a new RequestContext is built around the ambient
\* Map (the helpers build it by calling current()).
Resolve(t, fn) ==
  /\ Idle
  /\ Live(t)
  /\ outcomes' = outcomes \cup {[fn |-> fn, inside |-> InRun(t), out |-> Answer(t, fn)]}
  /\ IF current(t) = "handle"
       THEN Current(t)
       ELSE UNCHANGED coreVars
  /\ UNCHANGED <<runs, resolvedAt, lastSet>>

\* --------------------------------------------------------------- the cache

\* A Map as the sequence of its entries in iteration (insertion) order.  An
\* entry is key k and value v; w is history: the getOrSet call that wrote
\* it (0: set).
MapHas(m, k) == \E i \in DOMAIN m : m[i].k = k
MapEntry(m, k) == m[CHOOSE i \in DOMAIN m : m[i].k = k]
MapDelete(m, k) == SelectSeq(m, LAMBDA e : e.k # k)

\* SimpleLRUCache.get(key): the value returned and the Map afterwards; a
\* key that is present is deleted and set again, which moves it to the end.
lruGet(m, k) ==
  IF ~MapHas(m, k) THEN [value |-> Undef, cache |-> m]
  ELSE [value |-> MapEntry(m, k).v,
        cache |-> Append(MapDelete(m, k), MapEntry(m, k))]

\* Variant: put never evicts.
lruPutNoEvict(cap, m, k, v, w) ==
  LET m1 == IF MapHas(m, k) THEN MapDelete(m, k) ELSE m
  IN [cache |-> Append(m1, [k |-> k, v |-> v, w |-> w]), evicted |-> <<>>]
\* SimpleLRUCache.put(key, value): the key is deleted if present and set at
\* the end; if the size then exceeds the capacity, the first key of the Map
\* is deleted.  evicted is that key, if any.
lruPut(cap, m, k, v, w) ==
  LET m1 == IF MapHas(m, k) THEN MapDelete(m, k) ELSE m
      m2 == Append(m1, [k |-> k, v |-> v, w |-> w])
  IN IF Len(m2) > cap
       THEN [cache |-> Tail(m2), evicted |-> <<m2[1].k>>]
       ELSE [cache |-> m2, evicted |-> <<>>]

\* A CacheManager has been constructed.
Built == capacity # NotBuilt

\* CacheManager.stats().
stats == [size |-> Len(cache), capacity |-> capacity]

\* History of the keys' use, kept beside the actions: the keys that the Map
\* holds, ordered by their latest get or set, the last eviction, and the
\* Map as it was before the latest call if that call was a set.
useVars == <<recency, lastEvict, lastPut>>
NoUse == UNCHANGED useVars
Touch(rec, k) == Append(SelectSeq(rec, LAMBDA x : x # k), k)
Present(rec, m) == SelectSeq(rec, LAMBDA x : MapHas(m, x))
\* get(key) has read a key that is present.
NoteGet(k) ==
  /\ recency' = IF MapHas(cache, k) THEN Touch(recency, k) ELSE recency
  /\ lastPut' = <<>>
  /\ UNCHANGED lastEvict
\* set(key, value) has written the key, and has evicted a key or not:
\* victim is the key removed, oldest the key whose latest get or set was
\* the earliest.
NoteSetKey(k) ==
  /\ recency' = Present(Touch(recency, k), cache')
  /\ LET put == lruPut(capacity, cache, k, Undef, 0)
     IN lastEvict' = IF put.evicted = <<>> THEN lastEvict
                     ELSE <<[victim |-> put.evicted[1],
                             oldest |-> Head(Touch(recency, k))]>>
  /\ lastPut' = <<[k |-> k, before |-> cache]>>
\* has(key) has been called: no get, no set.
NoteHas ==
  /\ lastPut' = <<>>
  /\ UNCHANGED <<recency, lastEvict>>
\* Keys have been removed.
NoteRemoved ==
  /\ recency' = Present(recency, cache')
  /\ lastPut' = <<>>
  /\ UNCHANGED lastEvict

\* new CacheManager(capacity).
NewCacheManager(c) ==
  /\ ~Built
  /\ capacity' = c
  /\ UNCHANGED <<cache, timers, now, gos, fired, expired>>
  /\ UNCHANGED ctxAll

\* CacheManager.get(key).
CacheGet(k) ==
  /\ Built
  /\ cache' = lruGet(cache, k).cache
  /\ UNCHANGED <<capacity, timers, now, gos, fired, expired>>
  /\ UNCHANGED ctxAll

\* Variant: set makes room before it writes, whenever the cache is full.
CacheSetMakesRoom(k, v) ==
  /\ Built
  /\ LET room == IF Len(cache) >= capacity /\ cache # <<>> THEN Tail(cache) ELSE cache
         put == lruPut(capacity, room, k, v, 0)
     IN cache' = put.cache
  /\ expired' = expired \ {k}
  /\ UNCHANGED <<capacity, timers, now, gos, fired>>
  /\ UNCHANGED ctxAll

\* CacheManager.set(key, value).
CacheSet(k, v) ==
  /\ Built
  /\ LET put == lruPut(capacity, cache, k, v, 0)
     IN cache' = put.cache
  /\ expired' = expired \ {k}
  /\ UNCHANGED <<capacity, timers, now, gos, fired>>
  /\ UNCHANGED ctxAll

\* CacheManager.has(key): this.cache.get(key) !== undefined.  It is neither
\* a get nor a set of the CacheManager: the history of the keys' use stays.
CacheHas(k) ==
  /\ Built
  /\ cache' = lruGet(cache, k).cache
  /\ UNCHANGED <<capacity, timers, now, gos, fired, expired>>
  /\ UNCHANGED ctxAll

\* CacheManager.delete(key).
CacheDelete(k) ==
  /\ Built
  /\ cache' = MapDelete(cache, k)
  /\ UNCHANGED <<capacity, timers, now, gos, fired, expired>>
  /\ UNCHANGED ctxAll

\* CacheManager.clear(): a new, empty SimpleLRUCache of the same capacity.
CacheClear ==
  /\ Built
  /\ cache' = <<>>
  /\ UNCHANGED <<capacity, timers, now, gos, fired, expired>>
  /\ UNCHANGED ctxAll

\* Variant: no timer is set, whatever the ttl.
SchedulesNever(ttl) == FALSE
\* ttl && ttl > 0.
Schedules(ttl) == ttl # NoTtl /\ ttl > 0

\* Variant: single flight, a call that misses while another call on the
\* same key awaits its factory waits for that one and invokes nothing.
GetOrSetStartSingleFlight(k, ttl) ==
  /\ Built
  /\ Len(gos) < MaxCalls
  /\ LET g == lruGet(cache, k)
         hit == g.value # Undef
         joins == \E c \in DOMAIN gos : gos[c].k = k /\ gos[c].st = "awaiting"
     IN /\ cache' = g.cache
        /\ gos' = Append(gos,
                    [k |-> k, ttl |-> ttl,
                     found |-> IF MapHas(cache, k) THEN <<MapEntry(cache, k)>> ELSE <<>>,
                     sawExpired |-> k \in expired,
                     st |-> IF hit THEN "hit" ELSE IF joins THEN "joined" ELSE "awaiting",
                     fcalls |-> IF hit \/ joins THEN 0 ELSE 1,
                     made |-> <<>>,
                     result |-> IF hit THEN <<g.value>> ELSE <<>>,
                     kept |-> FALSE,
                     doneAt |-> NotDone])
  /\ UNCHANGED <<capacity, timers, now, fired, expired>>
  /\ UNCHANGED ctxAll

\* Variant: a hit with a ttl sets a timer too.
GetOrSetStartRenews(k, ttl) ==
  /\ Built
  /\ Len(gos) < MaxCalls
  /\ LET g == lruGet(cache, k)
         hit == g.value # Undef
     IN /\ cache' = g.cache
        /\ gos' = Append(gos,
                    [k |-> k, ttl |-> ttl,
                     found |-> IF MapHas(cache, k) THEN <<MapEntry(cache, k)>> ELSE <<>>,
                     sawExpired |-> k \in expired,
                     st |-> IF hit THEN "hit" ELSE "awaiting",
                     fcalls |-> IF hit THEN 0 ELSE 1,
                     made |-> <<>>,
                     result |-> IF hit THEN <<g.value>> ELSE <<>>,
                     kept |-> FALSE,
                     doneAt |-> NotDone])
        /\ timers' = IF hit /\ Schedules(ttl)
                       THEN timers \cup {[id |-> Len(gos) + 1, k |-> k, at |-> now + ttl]}
                       ELSE timers
  /\ UNCHANGED <<capacity, now, fired, expired>>
  /\ UNCHANGED ctxAll

\* getOrSet(key, factory, ttl) up to its await: this.get(key); a value other
\* than undefined is returned, otherwise factory is invoked and awaited.
\* found and sawExpired are history: the entry under the key at the call,
\* and whether a timer had deleted the key with no write since.
GetOrSetStart(k, ttl) ==
  /\ Built
  /\ Len(gos) < MaxCalls
  /\ LET g == lruGet(cache, k)
         hit == g.value # Undef
     IN /\ cache' = g.cache
        /\ gos' = Append(gos,
                    [k |-> k, ttl |-> ttl,
                     found |-> IF MapHas(cache, k) THEN <<MapEntry(cache, k)>> ELSE <<>>,
                     sawExpired |-> k \in expired,
                     st |-> IF hit THEN "hit" ELSE "awaiting",
                     fcalls |-> IF hit THEN 0 ELSE 1,
                     made |-> <<>>,
                     result |-> IF hit THEN <<g.value>> ELSE <<>>,
                     kept |-> FALSE,
                     doneAt |-> NotDone])
  /\ UNCHANGED <<capacity, timers, now, fired, expired>>
  /\ UNCHANGED ctxAll

\* The factory of call c has produced v: this.set(key, value), the timer if
\* a ttl was given, and v is returned.  kept and doneAt are history: the
\* key holds v when the call returns, and the time of the return.
FactoryResolves(c, v) ==
  /\ gos[c].st = "awaiting"
  /\ LET k == gos[c].k
         put == lruPut(capacity, cache, k, v, c)
     IN /\ cache' = put.cache
        /\ expired' = expired \ {k}
        /\ timers' = IF Schedules(gos[c].ttl)
                       THEN timers \cup {[id |-> c, k |-> k, at |-> now + gos[c].ttl]}
                       ELSE timers
        /\ gos' = [gos EXCEPT ![c] =
                     [@ EXCEPT !.st = "stored", !.made = <<v>>, !.result = <<v>>,
                               !.kept = MapHas(put.cache, k), !.doneAt = now]]
  /\ UNCHANGED <<capacity, now, fired>>
  /\ UNCHANGED ctxAll

\* Variant: getOrSet catches the fault, stores undefined under the key and
\* sets the timer.
FactoryRejectsStores(c) ==
  /\ gos[c].st = "awaiting"
  /\ gos' = [gos EXCEPT ![c].st = "failed"]
  /\ cache' = lruPut(capacity, cache, gos[c].k, Undef, c).cache
  /\ timers' = IF Schedules(gos[c].ttl)
                 THEN timers \cup {[id |-> c, k |-> gos[c].k, at |-> now + gos[c].ttl]}
                 ELSE timers
  /\ UNCHANGED <<capacity, now, fired, expired>>
  /\ UNCHANGED ctxAll

\* The factory of call c raises, or its promise rejects: the await raises
\* in getOrSet, which catches nothing.
FactoryRejects(c) ==
  /\ gos[c].st = "awaiting"
  /\ gos' = [gos EXCEPT ![c].st = "failed"]
  /\ UNCHANGED <<capacity, cache, timers, now, fired, expired>>
  /\ UNCHANGED ctxAll

\* Variant: the timer deletes the key only if it still holds the entry that
\* its getOrSet call wrote.
FireIfSame(t) ==
  /\ t \in timers
  /\ now >= t.at
  /\ cache' = IF MapHas(cache, t.k) /\ MapEntry(cache, t.k).w = t.id
                THEN MapDelete(cache, t.k) ELSE cache
  /\ timers' = timers \ {t}
  /\ fired' = fired \cup {[id |-> t.id, k |-> t.k, at |-> t.at, time |-> now,
                           victim |-> IF MapHas(cache, t.k)
                                        THEN <<MapEntry(cache, t.k)>> ELSE <<>>]}
  /\ expired' = expired \cup {t.k}
  /\ UNCHANGED <<capacity, now, gos>>
  /\ UNCHANGED ctxAll

\* Timer t fires: this.delete(key), whatever the key holds now.
Fire(t) ==
  /\ t \in timers
  /\ now >= t.at
  /\ cache' = MapDelete(cache, t.k)
  /\ timers' = timers \ {t}
  /\ fired' = fired \cup {[id |-> t.id, k |-> t.k, at |-> t.at, time |-> now,
                           victim |-> IF MapHas(cache, t.k)
                                        THEN <<MapEntry(cache, t.k)>> ELSE <<>>]}
  /\ expired' = expired \cup {t.k}
  /\ UNCHANGED <<capacity, now, gos>>
  /\ UNCHANGED ctxAll

\* Time passes, once every timer that is due has fired.
Tick ==
  /\ Built
  /\ now < MaxTime
  /\ \A t \in timers : t.at > now
  /\ now' = now + 1
  /\ UNCHANGED <<capacity, cache, timers, gos, fired, expired>>
  /\ UNCHANGED ctxAll

\* ----------------------------------------------------------- specifications
EmptyData == [k \in Keys |-> Undef]

\* Propagation and isolation of the store.
NextContext ==
  \/ \E t \in DOMAIN tasks, d \in [Keys -> SeedValues \cup {Undef}] :
       Run(t, d) /\ NoNote /\ UNCHANGED <<snapshots, cacheVars>>
  \/ \E t \in DOMAIN tasks : Spawn(t) /\ NoNote /\ UNCHANGED <<snapshots, cacheVars>>
  \/ \E t \in DOMAIN tasks : Await(t) /\ NoNote /\ UNCHANGED <<snapshots, cacheVars>>
  \/ \E t \in DOMAIN tasks : Return(t) /\ NoNote /\ UNCHANGED <<snapshots, cacheVars>>
  \/ \E t \in DOMAIN tasks : Current(t) /\ NoNote /\ UNCHANGED <<snapshots, cacheVars>>
  \/ \E h \in DOMAIN handles, k \in Keys, v \in Values :
       Set(h, k, v) /\ NoNote /\ UNCHANGED <<snapshots, cacheVars>>

\* Cancellation through the handles of one or two scopes.
NextCancel ==
  \/ \E t \in DOMAIN tasks : Run(t, EmptyData) /\ NoNote /\ UNCHANGED <<snapshots, cacheVars>>
  \/ \E t \in DOMAIN tasks : Current(t) /\ NoNote /\ UNCHANGED <<snapshots, cacheVars>>
  \/ \E h \in DOMAIN handles : IsCancelled(h) /\ NoNote /\ UNCHANGED <<snapshots, cacheVars>>
  \/ \E h \in DOMAIN handles, cb \in Callbacks, threw \in BOOLEAN :
       OnCancel(h, cb, threw) /\ NoNote /\ UNCHANGED <<snapshots, cacheVars>>
  \/ \E h \in DOMAIN handles : Cancel(h) /\ NoNote /\ UNCHANGED <<snapshots, cacheVars>>
  \/ CallbackReturns /\ NoNote /\ UNCHANGED <<snapshots, cacheVars>>
  \/ CallbackThrows /\ NoNote /\ UNCHANGED <<snapshots, cacheVars>>

\* The functions that resolve the ambient scope, in and outside runs.
NextResolve ==
  \/ \E t \in DOMAIN tasks : Run(t, EmptyData) /\ NoNote /\ UNCHANGED <<snapshots, cacheVars>>
  \/ \E t \in DOMAIN tasks : Spawn(t) /\ NoNote /\ UNCHANGED <<snapshots, cacheVars>>
  \/ \E t \in DOMAIN tasks : Await(t) /\ NoNote /\ UNCHANGED <<snapshots, cacheVars>>
  \/ \E t \in DOMAIN tasks : Return(t) /\ NoNote /\ UNCHANGED <<snapshots, cacheVars>>
  \/ \E t \in DOMAIN tasks, fn \in {"current", "tryGetCurrentContext", "getCurrentContext"} :
       Resolve(t, fn) /\ UNCHANGED <<snapshots, cacheVars>>

\* Nested runs and shared entries, with the history of the calls.
NextNested ==
  \/ \E t \in DOMAIN tasks : Run(t, EmptyData) /\ NoteRun(t, EmptyData) /\ UNCHANGED <<snapshots, cacheVars>>
  \/ \E t \in DOMAIN tasks : Spawn(t) /\ NoNote /\ UNCHANGED <<snapshots, cacheVars>>
  \/ \E t \in DOMAIN tasks : Await(t) /\ NoNote /\ UNCHANGED <<snapshots, cacheVars>>
  \/ \E t \in DOMAIN tasks : Return(t) /\ NoNote /\ UNCHANGED <<snapshots, cacheVars>>
  \/ \E t \in DOMAIN tasks :
       Current(t) /\ NoteHandle("current") /\ UNCHANGED <<outcomes, snapshots, cacheVars>>
  \/ \E h \in DOMAIN handles, k \in Keys, v \in Values :
       Set(h, k, v) /\ NoteSet(h, k) /\ UNCHANGED <<snapshots, cacheVars>>

\* What run seeds the scope with and what it returns.
NextSeeded ==
  \/ \E d \in [Keys -> SeedValues \cup {Undef}] :
       Run(1, d) /\ NoteRun(1, d) /\ UNCHANGED <<snapshots, cacheVars>>
  \/ \E t \in DOMAIN tasks : Current(t) /\ NoNote /\ UNCHANGED <<snapshots, cacheVars>>
  \/ \E t \in DOMAIN tasks, v \in Values \cup {Undef} :
       ReturnValue(t, v) /\ UNCHANGED <<snapshots, cacheVars>>
  \/ \E h \in DOMAIN handles, k \in Keys, v \in Values :
       Set(h, k, v) /\ NoteSet(h, k) /\ UNCHANGED <<snapshots, cacheVars>>

\* The entries of a scope and the objects that getAll returns.
NextEntries ==
  \/ Run(1, EmptyData) /\ NoteRun(1, EmptyData) /\ UNCHANGED <<snapshots, cacheVars>>
  \/ \E t \in DOMAIN tasks : Current(t) /\ NoNote /\ UNCHANGED <<snapshots, cacheVars>>
  \/ \E h \in DOMAIN handles, k \in Keys, v \in Values :
       Set(h, k, v) /\ NoteSet(h, k) /\ UNCHANGED <<snapshots, cacheVars>>
  \/ \E h \in DOMAIN handles : GetAll(h) /\ NoNote /\ UNCHANGED cacheVars
  \/ \E i \in DOMAIN snapshots, k \in Keys, v \in Values \cup {Undef} :
       SnapshotWrite(i, k, v) /\ NoNote /\ UNCHANGED cacheVars

\* The entries of one scope beside its cancellation.
NextAdvisory ==
  \/ stores = <<>> /\ Run(1, EmptyData) /\ NoteRun(1, EmptyData) /\ UNCHANGED <<snapshots, cacheVars>>
  \/ \E t \in DOMAIN tasks : Current(t) /\ NoNote /\ UNCHANGED <<snapshots, cacheVars>>
  \/ \E h \in DOMAIN handles, k \in Keys, v \in Values :
       Set(h, k, v) /\ NoteSet(h, k) /\ UNCHANGED <<snapshots, cacheVars>>
  \/ \E h \in DOMAIN handles : GetAll(h) /\ NoNote /\ UNCHANGED cacheVars
  \/ \E h \in DOMAIN handles :
       OnCancel(h, "c1", FALSE) /\ NoNote /\ UNCHANGED <<snapshots, cacheVars>>
  \/ \E h \in DOMAIN handles : Cancel(h) /\ NoNote /\ UNCHANGED <<snapshots, cacheVars>>
  \/ CallbackReturns /\ NoNote /\ UNCHANGED <<snapshots, cacheVars>>

\* The key that the callers of getOrSet share, and the keys that the
\* direct callers beside them use.
GetOrSetKeys == {"a"}
DirectKeys == {"a", "b"}

\* One CacheManager, its direct callers and the history of the keys' use.
NextLru ==
  \/ \E c \in Capacities : NewCacheManager(c) /\ NoUse
  \/ \E k \in CacheKeys : CacheGet(k) /\ NoteGet(k)
  \/ \E k \in CacheKeys, v \in LruValues : CacheSet(k, v) /\ NoteSetKey(k)
  \/ \E k \in CacheKeys : CacheHas(k) /\ NoteHas
  \/ \E k \in CacheKeys : CacheDelete(k) /\ NoteRemoved
  \/ CacheClear /\ NoteRemoved

\* One CacheManager, the callers of getOrSet, their factories and timers.
NextCache ==
  \/ \E c \in Capacities : NewCacheManager(c) /\ NoUse
  \/ \E k \in DirectKeys : CacheGet(k) /\ NoUse
  \/ \E k \in DirectKeys, v \in SetValues : CacheSet(k, v) /\ NoUse
  \/ \E k \in DirectKeys : CacheHas(k) /\ NoUse
  \/ \E k \in DirectKeys : CacheDelete(k) /\ NoUse
  \/ CacheClear /\ NoUse
  \/ \E k \in GetOrSetKeys, ttl \in Ttls : GetOrSetStart(k, ttl) /\ NoUse
  \/ \E c \in DOMAIN gos, v \in FactoryResults : FactoryResolves(c, v) /\ NoUse
  \/ \E c \in DOMAIN gos : FactoryRejects(c) /\ NoUse
  \/ \E t \in timers : Fire(t) /\ NoUse
  \/ Tick /\ NoUse

Next == NextContext \/ NextCancel

Spec == Init /\ [][Next]_vars
SpecContext == Init /\ [][NextContext]_vars
SpecCancel == Init /\ [][NextCancel]_vars
SpecResolve == Init /\ [][NextResolve]_vars
SpecNested == Init /\ [][NextNested]_vars
SpecSeeded == Init /\ [][NextSeeded]_vars
SpecEntries == Init /\ [][NextEntries]_vars
SpecAdvisory == Init /\ [][NextAdvisory]_vars
SpecLru == Init /\ [][NextLru]_vars
SpecCache == Init /\ [][NextCache]_vars

\* ------------------------------------------------------------------ claims
Scopes == DOMAIN stores
HandlesOf(s) == {h \in DOMAIN handles : ScopeOf(h) = s}

\* The cancel() calls made in scope s, and the first of them.
CallsOf(s) == {n \in DOMAIN calls : ScopeOf(calls[n]) = s}
FirstCall(s) == CHOOSE n \in CallsOf(s) : \A m \in CallsOf(s) : n <= m
InProgress(n) == \E f \in DOMAIN stack : stack[f].call = n
Settled(s) == \A n \in CallsOf(s) : ~InProgress(n)

\* The onCancel calls made in scope s while no cancel() had been called in s.
ActiveRegs(s) == {r \in DOMAIN regs : ScopeOf(regs[r].h) = s /\ regs[r].act}

\* The invocations of cb made by cancel() calls of scope s.
CancelInvs(s, cb) ==
  {i \in DOMAIN invs : invs[i].call # 0 /\ invs[i].cb = cb /\ ScopeOf(invs[i].h) = s}

\* C3: isolation.  A handle resolved by a continuation of run A is bound to
\* A's entries and never to another run's: get through it returns what code
\* of run A last wrote (or the seed), whatever other runs wrote.
C3_Isolation ==
  \A h \in DOMAIN handles :
    /\ handles[h].store = handles[h].origin
    /\ \A k \in Keys : Get(h, k) = written[handles[h].origin][k]

\* Two runs active together, B's continuation resolved first and A's after
\* it; A did set(x, 1), B did set(x, 2), and each reads its own value.
C3_Witness ==
  /\ returned = {}
  /\ \E a, b \in DOMAIN handles :
       /\ b < a
       /\ handles[a].origin = 1 /\ handles[b].origin = 2
       /\ written[1]["x"] = 1 /\ written[2]["x"] = 2
       /\ Get(a, "x") = 1 /\ Get(b, "x") = 2

\* C4: propagation.  Every continuation descended from a run has that run's
\* store as its ambient store at every point, and so every handle it
\* resolves, also after a suspension and after the run's callback returned,
\* is bound to the store that was ambient when the run started it.
C4_Propagation ==
  /\ \A t \in DOMAIN tasks : getStore(t) = tasks[t].origin
  /\ \A h \in DOMAIN handles :
       (handles[h].susp \/ handles[h].late) => handles[h].store = handles[h].origin

\* A sub-operation resolved a handle after being suspended and after the
\* callback of its run had returned; another handle of the same run was
\* resolved before any suspension, and both are bound to the same store.
C4_Witness ==
  \E g, h \in DOMAIN handles :
    /\ handles[h].susp /\ handles[h].late
    /\ ~handles[g].susp /\ ~handles[g].late
    /\ handles[g].origin = handles[h].origin
    /\ handles[g].store = handles[h].store
    /\ handles[h].store # 0

\* C1: the cancel flag belongs to the scope.  Once cancel() has been called
\* through any handle of scope s, isCancelled() is true on every handle of s,
\* resolved before or after the call.
C1_FlagBelongsToScope ==
  \A s \in Scopes : CallsOf(s) # {} => \A h \in HandlesOf(s) : isCancelled(h)

\* C2: the registry belongs to the scope.  When the first cancel() of scope
\* s has run, every callback registered in s while s was Active, through
\* whichever handle, has been invoked by it.
C2_RegistryBelongsToScope ==
  \A s \in Scopes :
    (CallsOf(s) # {} /\ ~InProgress(FirstCall(s))) =>
      \A r \in ActiveRegs(s) :
        \E i \in DOMAIN invs :
          invs[i].call = FirstCall(s) /\ invs[i].cb = regs[r].cb

\* C5: cancel() is idempotent.  After two or more cancel() calls in scope s,
\* every callback registered while s was Active has been invoked exactly
\* once in total, and no cancel() but the first invoked anything.
C5_CancelIdempotent ==
  \A s \in Scopes :
    (Cardinality(CallsOf(s)) >= 2 /\ Settled(s)) =>
      /\ \A r \in ActiveRegs(s) : Cardinality(CancelInvs(s, regs[r].cb)) = 1
      /\ \A i \in DOMAIN invs :
           (invs[i].call # 0 /\ ScopeOf(invs[i].h) = s) => invs[i].call = FirstCall(s)

RECURSIVE IsSubseq(_, _)
\* a can be obtained from b by dropping elements.
IsSubseq(a, b) ==
  IF a = <<>> THEN TRUE
  ELSE IF b = <<>> THEN FALSE
  ELSE IF Head(a) = Head(b) THEN IsSubseq(Tail(a), Tail(b))
  ELSE IsSubseq(a, Tail(b))

CbsOf(log) == [i \in DOMAIN log |-> log[i].cb]
\* The callbacks given to onCancel in scope s, in call order.
RegCbs(s) == CbsOf(SelectSeq(regs, LAMBDA r : handles[r.h].store = s))
\* The callbacks invoked by cancel() call n, in invocation order.
InvCbs(n) == CbsOf(SelectSeq(invs, LAMBDA i : i.call = n))

\* C6: registration order.  The callbacks that a cancel() invokes are
\* invoked in the order in which onCancel registered them in the scope.
C6_RegistrationOrder ==
  \A n \in DOMAIN calls : IsSubseq(InvCbs(n), RegCbs(ScopeOf(calls[n])))

\* The first cancel() of a scope has run two callbacks, registered c2 first
\* and c1 second, in that order.
C6_Witness ==
  \E n \in DOMAIN calls :
    /\ n = FirstCall(ScopeOf(calls[n]))
    /\ ~InProgress(n)
    /\ InvCbs(n) = <<"c2", "c1">>
    /\ RegCbs(ScopeOf(calls[n])) = <<"c2", "c1">>

\* C7: fault isolation.  When a cancel() during which a callback raised has
\* returned, every callback registered in the scope (while Active) after the
\* faulting one has been invoked by that cancel() after it, the handle that
\* was cancelled reports Cancelled and the scope's registry is empty.
C7_FaultIsolation ==
  \A j \in DOMAIN invs :
    (invs[j].out = "caught" /\ ~InProgress(invs[j].call)) =>
      LET s == ScopeOf(invs[j].h)
          fr == CHOOSE r \in DOMAIN regs :
                  /\ regs[r].h = invs[j].h /\ regs[r].cb = invs[j].cb
                  /\ \A q \in DOMAIN regs :
                       (regs[q].h = invs[j].h /\ regs[q].cb = invs[j].cb) => r <= q
      IN /\ \A r \in ActiveRegs(s) :
              (r > fr /\ regs[r].cb # invs[j].cb) =>
                \E i \in DOMAIN invs :
                  i > j /\ invs[i].call = invs[j].call /\ invs[i].cb = regs[r].cb
         /\ isCancelled(invs[j].h)
         /\ \A h \in HandlesOf(s) : handles[h].cancelCallbacks = <<>>

\* C8: onCancel on a Cancelled scope.  Every onCancel call made after a
\* cancel() of the scope has invoked its callback exactly once, within the
\* call, and has not stored it.
C8_LateOnCancel ==
  \A r \in DOMAIN regs :
    ~regs[r].act =>
      /\ Cardinality({i \in DOMAIN invs : invs[i].reg = r}) = 1
      /\ ~regs[r].stored

\* C9: monotonic state.  Once isCancelled() has returned true in a scope,
\* it returns true through every handle of the scope from then on.
C9_Monotonic ==
  \A s \in seenTrue : \A h \in HandlesOf(s) : isCancelled(h)

\* C10: drained registry.  Whenever a scope is Cancelled and no cancel() is
\* in progress in it, no callback is held in its registry.
C10_RegistryDrained ==
  \A s \in Scopes :
    (CallsOf(s) # {} /\ Settled(s)) =>
      \A h \in HandlesOf(s) : handles[h].cancelCallbacks = <<>>

\* ------------------------------------------------ resolving, entries, runs

\* What each function is to answer outside any run.
OutsideAnswer(fn) ==
  CASE fn = "current" -> "undefined"
    [] fn = "tryGetCurrentContext" -> "null"
    [] fn = "getCurrentContext" -> "throws"

\* C11: outside any run, current() returns undefined, tryGetCurrentContext()
\* returns null and getCurrentContext() raises; in a continuation of a run
\* (before or after a suspension, before or after the callback returned) all
\* three return a handle.
C11_ResolveOutsideAndInside ==
  \A o \in outcomes :
    o.out = IF o.inside THEN "handle" ELSE OutsideAnswer(o.fn)

\* Each of the three has been called outside any run and inside one, and a
\* continuation that had been suspended got a handle.
C11_Witness ==
  /\ \A fn \in {"current", "tryGetCurrentContext", "getCurrentContext"} :
       /\ [fn |-> fn, inside |-> FALSE, out |-> OutsideAnswer(fn)] \in outcomes
       /\ [fn |-> fn, inside |-> TRUE, out |-> "handle"] \in outcomes
  /\ \E h \in DOMAIN handles : handles[h].susp


\* C12: entries are shared by the handles of a scope, last write wins.  For
\* a key that has been set in scope s, get through every handle of s
\* (resolved before or after the write, before or after a suspension)
\* returns the value of the latest set of that key in s.
C12_SharedEntries ==
  \A h \in DOMAIN handles, k \in Keys :
    k \in runs[ScopeOf(h)].setKeys => Get(h, k) = written[ScopeOf(h)][k]

\* The latest set in a scope overwrote another value; one handle of the
\* scope was resolved before that set and before any suspension, another
\* after the set and after a suspension, and both read the new value.
C12_Witness ==
  \E g, h \in DOMAIN handles :
    /\ ScopeOf(g) = lastSet.scope /\ ScopeOf(h) = lastSet.scope
    /\ g <= lastSet.n /\ lastSet.n < h
    /\ ~handles[g].susp /\ handles[h].susp
    /\ lastSet.prev \in Values
    /\ Get(g, "x") \in Values \ {lastSet.prev}
    /\ Get(h, "x") = Get(g, "x")

\* C13: nested run.  A run n called inside scope s makes a new scope: the
\* continuations of n's callback resolve n and read only what was written in
\* n, the continuations of s resolve s (also after n's callback returned)
\* and read only what was written in s.
C13_NestedRun ==
  \A n \in DOMAIN runs :
    runs[n].outer # 0 =>
      LET s == runs[n].outer
      IN /\ n # s
         /\ \A t \in DOMAIN tasks :
              tasks[t].origin \in {n, s} => getStore(t) = tasks[t].origin
         /\ \A h \in DOMAIN handles :
              handles[h].origin \in {n, s} =>
                /\ ScopeOf(h) = handles[h].origin
                /\ \A k \in Keys : Get(h, k) = written[handles[h].origin][k]

\* Run n was called inside run s and its callback has returned; a handle
\* resolved in s after that, while s's callback was still running, reads
\* what s wrote, and a handle of n reads what n wrote.
C13_Witness ==
  \E n \in DOMAIN runs, g, h \in DOMAIN handles :
    /\ runs[n].outer # 0
    /\ handles[g].origin = n
    /\ handles[h].origin = runs[n].outer
    /\ n \in resolvedAt[h].returned
    /\ runs[n].outer \notin resolvedAt[h].returned
    /\ Get(g, "x") = 2 /\ Get(h, "x") = 1
    /\ ScopeOf(g) = n /\ ScopeOf(h) = runs[n].outer

\* What a handle's scope holds according to the calls of run and set made
\* in it.
Entries(h) == [k \in Keys |-> written[handles[h].origin][k]]

\* C14: getAll() returns a copy.  What the holder writes to or deletes from
\* the returned object changes nothing that get or a later getAll returns,
\* and no set on the scope changes an object already returned: each
\* returned object holds what getAll put in it and its holder did to it.
C14_GetAllSnapshot ==
  /\ \A h \in DOMAIN handles :
       /\ \A k \in Keys : Get(h, k) = Entries(h)[k]
       /\ getAll(h) = Entries(h)
  /\ \A i \in DOMAIN snapshots : snapshots[i].obj = snapshots[i].own

\* getAll returned an object; its holder deleted x from it and set(x, .)
\* was called on the scope afterwards with a new value: get returns the new
\* value, the object has neither the old nor the new one.
C14_Witness ==
  \E i \in DOMAIN snapshots :
    /\ snapshots[i].edited
    /\ lastSet.snaps >= i
    /\ lastSet.scope = ScopeOf(snapshots[i].h)
    /\ lastSet.prev \in Values
    /\ Get(snapshots[i].h, "x") \in Values \ {lastSet.prev}
    /\ snapshots[i].obj["x"] = Undef

\* C15: run seeds the new scope with the keys of initialData and nothing
\* else (until a key is set, get returns initialData's value for it, or
\* undefined), and run returns the value that the callback returned.
C15_RunSeedsAndReturns ==
  \A r \in DOMAIN runs :
    /\ r \in returned => (Len(runs[r].result) = 1 /\ runs[r].result = runs[r].cbValue)
    /\ \A h \in HandlesOf(r), k \in Keys \ runs[r].setKeys :
         Get(h, k) = runs[r].initialData[k]

\* One run was given x and one was given nothing; a handle of the first
\* reads the given value and a handle of the second reads undefined, and the
\* first run has returned the value 2 of its callback.
C15_Witness ==
  \E a, b \in DOMAIN handles :
    /\ runs[ScopeOf(a)].initialData["x"] = 3 /\ Get(a, "x") = 3
    /\ runs[ScopeOf(b)].initialData["x"] = Undef /\ Get(b, "x") = Undef
    /\ runs[ScopeOf(a)].setKeys = {} /\ runs[ScopeOf(b)].setKeys = {}
    /\ ScopeOf(a) \in returned
    /\ runs[ScopeOf(a)].result = <<2>>

\* A step of cancel(): the call itself or a callback it runs ending.
CancelStep == calls' # calls \/ stack # <<>>

\* C16: cancellation is advisory.  No step of cancel() changes the entries
\* of any scope or an object returned by getAll, and get, set and getAll
\* work through a cancelled handle as through any other: get returns the
\* latest value set and getAll the current entries.
C16_CancelAdvisory ==
  /\ [][CancelStep => UNCHANGED <<stores, written, snapshots, tasks, returned>>]_vars
  /\ [](\A h \in DOMAIN handles :
          /\ \A k \in Keys : Get(h, k) = Entries(h)[k]
          /\ getAll(h) = Entries(h))
  /\ [](\A i \in DOMAIN snapshots :
          lastSet.snaps < i => snapshots[i].obj = getAll(snapshots[i].h))

\* cancel() through a handle has run a callback; afterwards set was called
\* through that handle and then getAll: get and the returned object have the
\* value set.
C16_Witness ==
  \E i \in DOMAIN snapshots, j \in DOMAIN invs :
    LET h == snapshots[i].h
    IN /\ invs[j].h = h /\ invs[j].call # 0 /\ invs[j].out = "ok"
       /\ isCancelled(h)
       /\ snapshots[i].cancelled
       /\ lastSet.cancelled /\ lastSet.scope = ScopeOf(h) /\ lastSet.snaps < i
       /\ Get(h, "x") \in Values
       /\ snapshots[i].obj["x"] = Get(h, "x")

\* ---------------------------------------------------------------- the cache

\* C17: cache-aside.  A getOrSet call that finds its key absent invokes its
\* factory exactly once and, when the factory has produced a value, returns
\* that value and leaves it stored under the key (a cache of capacity 0
\* holds nothing).  A later getOrSet call that finds an entry that a
\* getOrSet call stored, not deleted, evicted or expired since, returns the
\* stored value and does not invoke its factory.
C17_CacheAside ==
  \A c \in DOMAIN gos :
    /\ gos[c].found = <<>> =>
          /\ gos[c].fcalls = 1
          /\ gos[c].st = "stored" =>
                /\ gos[c].result = gos[c].made
                /\ capacity >= 1 => gos[c].kept
    /\ (gos[c].found # <<>> /\ gos[c].found[1].w \in DOMAIN gos) =>
          /\ gos[c].st = "hit"
          /\ gos[c].fcalls = 0
          /\ gos[c].result = <<gos[c].found[1].v>>

\* C18: LRU eviction.  Whenever a set has made the cache exceed its capacity,
\* the key removed is the one whose latest get or set is the oldest among
\* the keys present (a get of a present key makes it the most recently
\* used).
C18_EvictsLeastRecentlyUsed ==
  lastEvict = <<>> \/ lastEvict[1].victim = lastEvict[1].oldest

\* C19: TTL expiry.  A getOrSet call that missed and stored a value with a
\* ttl > 0 has a deferred deletion of its key due ttl after the store, which
\* is pending until then and fires then.  A key that a deferred deletion
\* has removed and nothing has written since is absent: get returns
\* undefined, and a getOrSet call made then misses, invokes its factory once
\* and returns the factory's result.
C19_TtlExpiry ==
  /\ \A c \in DOMAIN gos :
        (gos[c].st = "stored" /\ gos[c].ttl > 0) =>
          LET t == [id |-> c, k |-> gos[c].k, at |-> gos[c].doneAt + gos[c].ttl]
          IN \/ t \in timers /\ now <= t.at
             \/ \E f \in fired : f.id = c /\ f.k = t.k /\ f.at = t.at /\ f.time = t.at
  /\ \A k \in expired :
        /\ ~MapHas(cache, k)
        /\ lruGet(cache, k).value = Undef
  /\ \A c \in DOMAIN gos :
        gos[c].sawExpired =>
          /\ gos[c].found = <<>>
          /\ gos[c].st # "hit"
          /\ gos[c].fcalls = 1
          /\ gos[c].st = "stored" => gos[c].result = gos[c].made

\* C19 witness: the first call stored a value with a ttl, the deferred
\* deletion removed that very entry (no set or delete in between), and the
\* next call on the key invoked its factory and returned its result.
C19_Witness ==
  \E c1, c2 \in DOMAIN gos :
    /\ c1 < c2 /\ gos[c1].k = gos[c2].k
    /\ gos[c1].st = "stored" /\ gos[c1].ttl > 0 /\ gos[c1].made[1] # Undef
    /\ \E f \in fired :
         /\ f.id = c1 /\ f.time = gos[c1].doneAt + gos[c1].ttl
         /\ f.victim = <<[k |-> gos[c1].k, v |-> gos[c1].made[1], w |-> c1]>>
    /\ gos[c2].sawExpired /\ gos[c2].st = "stored" /\ gos[c2].fcalls = 1
    /\ gos[c2].result = gos[c2].made /\ gos[c2].made[1] # Undef

\* C20: a deferred deletion is never cancelled or rescheduled.  Whatever
\* step is taken (set, delete, clear, another getOrSet), every pending
\* deferred deletion either stays pending with its key and deadline, or
\* fires in that step, at its deadline, after which its key is absent
\* whatever entry it held; no deferred deletion is pending past its
\* deadline or has fired at another time.
C20_TimerNeverCancelled ==
  /\ [][\A t \in timers :
          \/ t \in timers'
          \/ /\ now = t.at /\ now' = now
             /\ ~MapHas(cache', t.k)
             /\ \E f \in fired' \ fired : f.id = t.id /\ f.k = t.k /\ f.time = t.at]_vars
  /\ [](\A t \in timers : now <= t.at)
  /\ [](\A f \in fired : f.time = f.at /\ ~\E t \in timers : t.id = f.id)

\* C20 witness: a deferred deletion has fired at its deadline and removed an
\* entry that was written after the one it was set for (by set, or by
\* another getOrSet call).
C20_Witness ==
  \E f \in fired :
    /\ f.time = f.at
    /\ f.victim # <<>> /\ f.victim[1].w # f.id /\ f.victim[1].v # Undef
    /\ gos[f.id].made[1] # Undef
    /\ ~MapHas(cache, f.k)

\* C21: no single flight.  A getOrSet call that starts on an absent key
\* while another call on the same key awaits its factory finds the key
\* absent too and invokes its own factory; each call whose factory completes
\* returns its own factory's result and writes it over whatever the key
\* holds, so the value left is that of the call that completes last.
C21_NoSingleFlight ==
  /\ [][\A k \in CacheKeys :
          (/\ Len(gos') = Len(gos) + 1
           /\ gos'[Len(gos')].k = k
           /\ ~MapHas(cache, k)
           /\ \E c \in DOMAIN gos : gos[c].k = k /\ gos[c].st = "awaiting")
          => /\ gos'[Len(gos')].found = <<>>
             /\ gos'[Len(gos')].st = "awaiting"
             /\ gos'[Len(gos')].fcalls = 1]_vars
  /\ [][\A c \in DOMAIN gos :
          (gos[c].st = "awaiting" /\ gos'[c].st = "stored")
          => /\ gos'[c].fcalls = 1
             /\ gos'[c].result = gos'[c].made
             /\ capacity >= 1 =>
                  /\ MapHas(cache', gos[c].k)
                  /\ MapEntry(cache', gos[c].k) =
                       [k |-> gos[c].k, v |-> gos'[c].made[1], w |-> c]]_vars

\* C21 witness: two calls found the key absent, the second started while
\* the first was awaiting and completed first; both invoked their
\* factories and returned their results, and the key holds what the first
\* call, the last to complete, wrote.
C21_Witness ==
  \E c1, c2 \in DOMAIN gos :
    /\ c1 < c2 /\ gos[c1].k = gos[c2].k
    /\ gos[c1].found = <<>> /\ gos[c2].found = <<>>
    /\ gos[c1].st = "stored" /\ gos[c2].st = "stored"
    /\ gos[c1].fcalls = 1 /\ gos[c2].fcalls = 1
    /\ gos[c1].result = gos[c1].made /\ gos[c2].result = gos[c2].made
    /\ gos[c1].made[1] # Undef /\ gos[c2].made[1] # Undef
    /\ MapHas(cache, gos[c1].k)
    /\ MapEntry(cache, gos[c1].k).w = c1

\* C22: capacity bound.  After any sequence of set, get, has, delete, clear,
\* getOrSet and timer firings on a cache built with capacity c >= 0, the
\* number of stored entries, stats().size, is at most c.
C22_CapacityBound ==
  Built => /\ stats.capacity >= 0
           /\ stats.size <= stats.capacity

\* C22 witness: a cache of capacity 1 is full with a key written by set
\* after a getOrSet call had stored its own key, and a timer has fired.
C22_Witness ==
  /\ capacity = 1 /\ stats.size = 1
  /\ cache[1].k = "b" /\ cache[1].w = 0
  /\ \E c \in DOMAIN gos : gos[c].st = "stored" /\ gos[c].kept /\ gos[c].k = "a"
  /\ fired # {}

\* The keys of the Map in its order, from the next to be evicted on.
KeyOrder == [i \in DOMAIN cache |-> cache[i].k]

\* C27: has is a pure query.  The order in which the cache holds its keys,
\* which decides what the next overflowing set evicts, is the order of
\* their latest get or set, whatever calls of has were made in between.
C27_HasIsPure ==
  KeyOrder = recency

\* C28: set on a key that is present evicts nothing.  After set(k, v) on a
\* cache that held k, the keys stored and the size are the same as before,
\* every other entry is as it was and in the same order, and k is the most
\* recently used key and holds v.
C28_SetOnPresentKey ==
  (lastPut # <<>> /\ MapHas(lastPut[1].before, lastPut[1].k)) =>
    LET k == lastPut[1].k
        before == lastPut[1].before
    IN /\ Len(cache) = Len(before)
       /\ {cache[i].k : i \in DOMAIN cache} = {before[i].k : i \in DOMAIN before}
       /\ MapDelete(cache, k) = MapDelete(before, k)
       /\ Last(cache).k = k
       /\ Last(cache).v \in LruValues

\* C28 witness: the cache was full, with capacity 2, and the key set again
\* was the least recently used one and got another value.
C28_Witness ==
  /\ lastPut # <<>>
  /\ capacity = 2 /\ Len(lastPut[1].before) = 2
  /\ lastPut[1].before[1].k = lastPut[1].k
  /\ lastPut[1].before[1].v = 1
  /\ Last(cache).k = lastPut[1].k /\ Last(cache).v = 2
  /\ cache[1] = lastPut[1].before[2]

\* The timer that getOrSet call c sets when it stores.
TimerOf(c) == [id |-> c, k |-> gos[c].k, at |-> gos[c].doneAt + gos[c].ttl]

\* C29: a hit sets no timer and moves none.  The step of a getOrSet call
\* that hits leaves the timers as they are, whatever its ttl; every timer,
\* pending or fired, is the one that a call which missed and stored with a
\* ttl > 0 set, due ttl after that store, so an entry is removed by time
\* only through such a call on its key, and at that time whatever hits
\* came later.
C29_HitSchedulesNothing ==
  /\ [][(Len(gos') = Len(gos) + 1 /\ gos'[Len(gos')].st = "hit")
         => UNCHANGED <<timers, fired>>]_vars
  /\ [](\A t \in timers :
          /\ gos[t.id].st = "stored" /\ gos[t.id].ttl > 0
          /\ t = TimerOf(t.id))
  /\ [](\A f \in fired :
          /\ gos[f.id].st = "stored" /\ gos[f.id].ttl > 0
          /\ f.k = gos[f.id].k
          /\ f.time = gos[f.id].doneAt + gos[f.id].ttl)

\* C29 witness: a call stored with a ttl, a later call with a ttl hit that
\* entry, and the entry was removed ttl after the store; no timer is left.
C29_Witness ==
  \E c1, c2 \in DOMAIN gos :
    /\ c1 < c2
    /\ gos[c1].st = "stored" /\ gos[c1].ttl > 0
    /\ gos[c2].st = "hit" /\ gos[c2].ttl > 0
    /\ gos[c2].found = <<[k |-> gos[c1].k, v |-> gos[c1].made[1], w |-> c1]>>
    /\ \E f \in fired :
         /\ f.id = c1 /\ f.time = gos[c1].doneAt + gos[c1].ttl
         /\ f.victim = gos[c2].found
    /\ timers = {}

\* C30: a failing factory.  When the factory of a getOrSet call that found
\* its key absent raises, the call ends with that fault and without a
\* result; neither the call's start nor its end changes the entries or the
\* timers, so nothing is stored under the key, no timer is set and every
\* other entry is as it was.
C30_FactoryFault ==
  /\ [][(Len(gos') = Len(gos) + 1 /\ gos'[Len(gos')].found = <<>>)
         => UNCHANGED <<cache, timers, fired>>]_vars
  /\ [][\A c \in DOMAIN gos :
          (gos[c].st = "awaiting" /\ gos'[c].st = "failed")
          => UNCHANGED <<cache, timers, fired, capacity>>]_vars
  /\ [](\A c \in DOMAIN gos :
          gos[c].st = "failed" =>
            /\ gos[c].fcalls = 1 /\ gos[c].made = <<>> /\ gos[c].result = <<>>
            /\ \A t \in timers \cup fired : t.id # c
            /\ \A i \in DOMAIN cache : cache[i].w # c)

\* C30 witness: a call with a ttl found its key absent and its factory
\* raised; the key is absent, no timer was ever set, and the entry that
\* another key held is still there.
C30_Witness ==
  \E c \in DOMAIN gos :
    /\ gos[c].st = "failed" /\ gos[c].found = <<>> /\ gos[c].ttl > 0
    /\ ~MapHas(cache, gos[c].k)
    /\ timers = {} /\ fired = {} /\ now = MaxTime
    /\ \E i \in DOMAIN cache : cache[i].k # gos[c].k /\ cache[i].w = 0

\* ------------------------------------------------- cancellation, continued

\* The cancel() calls made through handle h that are still running.
Running(h) == \E f \in DOMAIN stack : stack[f].h = h

\* The invocations made by cancel() call n.
InvsOf(n) == {i \in DOMAIN invs : invs[i].call = n}

\* C23: one invocation per registration.  When the first cancel() of scope
\* s has run, the number of invocations it made equals the number of
\* onCancel calls made in s while s was Active, also when one callback
\* function was given to onCancel more than once.
C23_OneInvocationPerRegistration ==
  \A s \in Scopes :
    (CallsOf(s) # {} /\ ~InProgress(FirstCall(s))) =>
      Cardinality(InvsOf(FirstCall(s))) = Cardinality(ActiveRegs(s))

\* A step of cancel(): the call itself, or the end of a callback it runs.
CancelActs == regs' = regs /\ (calls' # calls \/ invs' # invs)
\* The handle whose cancel() takes the step.
Actor == IF calls' # calls THEN Last(calls') ELSE Last(stack).h

\* C24: cancellation is isolated between scopes.  No step of a cancel() in
\* scope A changes what isCancelled() returns through a handle of another
\* scope B, or B's registry; every callback that a cancel() invokes was
\* registered in the scope of that cancel().
C24_CancelIsolated ==
  /\ [][CancelActs =>
          \A h \in DOMAIN handles :
            ScopeOf(h) # ScopeOf(Actor) =>
              /\ isCancelled(h)' = isCancelled(h)
              /\ handles'[h].cancelCallbacks = handles[h].cancelCallbacks]_vars
  /\ [](\A i \in DOMAIN invs :
          invs[i].call # 0 =>
            /\ ScopeOf(invs[i].h) = ScopeOf(calls[invs[i].call])
            /\ \E r \in DOMAIN regs :
                 /\ regs[r].cb = invs[i].cb /\ regs[r].stored
                 /\ ScopeOf(regs[r].h) = ScopeOf(invs[i].h))

\* C24 witness: two runs are active, each with a handle and a registered
\* callback; cancel() in the first has invoked the first's callback, and
\* the second is not cancelled and still holds its callback.
C24_Witness ==
  \E a, b \in DOMAIN handles :
    /\ ScopeOf(a) = 1 /\ ScopeOf(b) = 2 /\ returned = {}
    /\ isCancelled(a) /\ ~Running(a) /\ ~isCancelled(b)
    /\ handles[b].cancelCallbacks = <<"c1">>
    /\ \E i \in DOMAIN invs :
         invs[i].h = a /\ invs[i].cb = "c1" /\ invs[i].call # 0 /\ invs[i].out = "ok"

\* C25: re-entrancy of cancel().  While a cancel() of scope s runs its
\* callbacks, isCancelled() is true in s; no callback registered while s was
\* Active is run twice, whatever cancel() calls the callbacks make; an
\* onCancel call made in s by a running callback invokes its callback within
\* the call and stores nothing; and when every cancel() of s has returned,
\* every callback registered while Active has run exactly once and the
\* registry of s is empty.
C25_Reentrancy ==
  /\ [](\A f \in DOMAIN stack :
          \A h \in HandlesOf(ScopeOf(stack[f].h)) : isCancelled(h))
  /\ [](\A s \in Scopes : \A r \in ActiveRegs(s) :
          Cardinality(CancelInvs(s, regs[r].cb)) <= 1)
  /\ [][(/\ stack # <<>>
          /\ Len(regs') = Len(regs) + 1
          /\ ScopeOf(regs'[Len(regs')].h) = ScopeOf(Last(stack).h))
         => /\ handles' = handles
            /\ Len(invs') = Len(invs) + 1
            /\ invs'[Len(invs')].reg = Len(regs')
            /\ invs'[Len(invs')].cb = regs'[Len(regs')].cb]_vars
  /\ [](\A s \in Scopes :
          (CallsOf(s) # {} /\ Settled(s)) =>
            /\ \A r \in ActiveRegs(s) : Cardinality(CancelInvs(s, regs[r].cb)) = 1
            /\ \A h \in HandlesOf(s) : handles[h].cancelCallbacks = <<>>)

\* A step in which onCancel invokes its callback at once and the callback
\* raises.
LateFault ==
  /\ Len(invs') = Len(invs) + 1
  /\ invs'[Len(invs')].reg # 0
  /\ invs'[Len(invs')].out # "ok"
\* The handle that onCancel is called through in that step.
LateHandle == invs'[Len(invs')].h

OneHandleDrained ==
  \A h \in DOMAIN handles :
    (isCancelled(h) /\ ~Running(h)) => handles[h].cancelCallbacks = <<>>

\* Every callback stored on h is invoked exactly once by the cancel() calls
\* made through h, however many there are, once the first has returned.
OneHandleIdempotent ==
  \A r \in DOMAIN regs :
    LET h == regs[r].h
    IN (regs[r].stored /\ isCancelled(h) /\ ~Running(h)) =>
         Cardinality({i \in DOMAIN invs :
           invs[i].h = h /\ invs[i].cb = regs[r].cb /\ invs[i].call # 0}) = 1

\* onCancel through a handle that is already cancelled invokes the callback
\* once, within the call, and does not store it.
OneHandleLateOnCancel ==
  \A r \in DOMAIN regs :
    ~regs[r].stored => Cardinality({i \in DOMAIN invs : invs[i].reg = r}) = 1

\* A handle's own flag never goes back to false.
OneHandleMonotonic ==
  [][\A h \in DOMAIN handles : isCancelled(h) => handles'[h].cancelled]_vars

====
